---------------------------- MODULE Spec2Model ----------------------------
(***************************************************************************)
(* Model of the Addepar job orchestration in src/main.py: the __main__     *)
(* loop (connect, usp_GetOpenJobs, process_all_jobs, commit, close) and    *)
(* process_all_jobs with its four status cases and their collaborators     *)
(* post_addepar_job, check_addepar_job_status, download_addepar_job,       *)
(* exec_import_proc and update_job_status_db.                              *)
(*                                                                         *)
(* The remote API, the stored procedures and the file system are the       *)
(* environment: each call draws its outcome from the set of outcomes the   *)
(* called function distinguishes in its code.                              *)
(***************************************************************************)
EXTENDS Integers, Sequences, FiniteSets, TLC

(***************************************************************************)
(* Bounds of the model.                                                    *)
(***************************************************************************)
NumJobs == 2

(***************************************************************************)
(* percent_complete is a JSON number; it is modelled in thousandths, so    *)
(* PctOne stands for the literal 1 of main.py:435 and main.py:439.         *)
(***************************************************************************)
PctOne == 1000

JobIds == 1 .. NumJobs

\* the two job types of addepar_params.py; the first two rows are the same
\* job type queued for the same date
JobNameOf(id) == IF id <= 2 THEN "Accounts" ELSE "Holdings"
AsOfDateOf(id) == "2023-01-18"

HandledStatuses == {"Queued", "Posted", "Downloaded", "Imported"}
Statuses == HandledStatuses \cup {"Completed", "Error"}
\* a status name the match statement of process_all_jobs has no case for
OtherStatuses == {"Cancelled"}
AllStatuses == Statuses \cup OtherStatuses

Handles == {"42"}
Pcts == {-1, 0, PctOne - 1, PctOne, PctOne + 1}
\* the numbers a stored procedure can return as its first column
RowCounts == {-2, -1, 0, 1}

\* the fixed detail strings of main.py:422, 433, 454, 470, 489
MsgPostFailed == "Failure posting job to Addepar - see logs for details."
MsgStatusFailed == "Failure downloading API data from Addepar - see logs for details."
MsgDownloadFailed == "Error downloading API data from Addepar - see logs for details."
MsgImportFailed == "Failure importing data into dbimport table - see logs for details."
MsgMergeFailed == "Failure inserting data into target table - see logs for details."
ErrorMsgs == {MsgPostFailed, MsgStatusFailed, MsgDownloadFailed, MsgImportFailed, MsgMergeFailed}

VARIABLES
    db,          \* the JobQueue table as the connection of the pass sees it: job id -> row
    durable,     \* the JobQueue table as committed: what a new connection sees
    db_conn,     \* "none", "open" or "closed": the connection of the current pass
    pc,          \* position of __main__ / process_all_jobs
    open_jobs,   \* the list query_to_list returned for this pass
    idx,         \* position of the for loop of process_all_jobs in open_jobs
    pend,        \* the update_job_status_db call the current case is about to make
    rerun_all,   \* _rerun of process_all_jobs
    rerun,       \* rerun of __main__
    log,         \* history: the collaborator calls made for the record last dispatched
    dispatched,  \* history: how often this pass has dispatched each record
    rerun_jobs,  \* history: rerun_job of each record this pass has finished
    lost,        \* history: the completed actions whose status update a restart rolled back
    util         \* a call of a function of database_utils.py: arguments and result

main_vars == <<db, durable, db_conn, pc, open_jobs, idx, pend, rerun_all, rerun, log,
               dispatched, rerun_jobs, lost>>
vars == <<db, durable, db_conn, pc, open_jobs, idx, pend, rerun_all, rerun, log, dispatched,
          rerun_jobs, lost, util>>

----------------------------------------------------------------------------
(***************************************************************************)
(* Values.                                                                 *)
(***************************************************************************)

\* A function result: a value, Python's None, or an exception the function
\* does not catch.
Ret(v) == [raised |-> FALSE, none |-> FALSE, val |-> v]
RetNone == [raised |-> FALSE, none |-> TRUE, val |-> ""]
Raised == [raised |-> TRUE, none |-> FALSE, val |-> ""]

\* one collaborator call of the log: the function, its argument, the outcome
\* of its external call and the number or string it returned
CallEvent(id, op, arg, res, num, ret) ==
    [job |-> id, op |-> op, arg |-> arg, res |-> res, num |-> num, ret |-> ret,
     from |-> "", to |-> "", ok |-> TRUE]
UpdateEvent(id, from, to, details, ok) ==
    [job |-> id, op |-> "update_job_status_db", arg |-> details, res |-> "",
     num |-> 0, ret |-> "", from |-> from, to |-> to, ok |-> ok]

NoUpdate == [to |-> "", details |-> "", rerun_job |-> FALSE]
Update(to, details, rerun_job) == [to |-> to, details |-> details, rerun_job |-> rerun_job]

\* f"data/{job_name}_{job_date}.json"
data_save_path(job_name, job_date) == "data/" \o job_name \o "_" \o job_date \o ".json"

\* the documented meaning of the detail for each status (main.py:403-406, 256-260)
InitDetails(status, name, date) ==
    CASE status = "Queued" -> "params"
      [] status = "Posted" -> "42"
      [] status = "Downloaded" -> data_save_path(name, date)
      [] status \in {"Imported", "Completed"} -> ToString(0)
      [] status = "Error" -> MsgPostFailed
      [] OTHER -> "params"

InitRow(id, status) ==
    [JobName |-> JobNameOf(id), AsOfDate |-> AsOfDateOf(id), StatusName |-> status,
     JobDetails |-> InitDetails(status, JobNameOf(id), AsOfDateOf(id))]

----------------------------------------------------------------------------
(***************************************************************************)
(* The collaborator functions, each as a function of the outcome of its    *)
(* external call.                                                          *)
(***************************************************************************)

\* the outcomes of an HTTP request that the three API functions tell apart:
\*   request_exception  requests raises RequestException (transport, timeout)
\*   decode_error       the body is not UTF-8: content.decode raises
\*   bad_status         a status code other than the expected one
\*   json_error         the body is not JSON
\*   key_error          a key of the path to the field is missing
\*   type_error         a value on the path to the field is no JSON object
FailedRequests == {"request_exception", "decode_error", "bad_status", "json_error",
                   "key_error", "type_error"}

\* api_response_to_file: open() and write() succeed, or raise IOError
api_response_to_file(written) == written

\* post_addepar_job giving up when the response could not be saved
post_addepar_job_needs_save(o) ==
    CASE o.res = "request_exception" -> RetNone
      [] o.res \in {"decode_error", "type_error"} -> Raised
      [] ~api_response_to_file(o.saved) -> RetNone
      [] o.res = "accepted" -> Ret(o.id)
      [] OTHER -> RetNone

\* post_addepar_job: the POST, its response (saved: the write of the response
\* to logs/ succeeded) and the job id of the response
PostOutcomes ==
    [res : FailedRequests \cup {"id_null"}, id : {""}, saved : BOOLEAN]
    \cup [res : {"accepted"}, id : Handles, saved : BOOLEAN]

post_addepar_job(o) ==
    CASE o.res = "request_exception" -> RetNone   \* main.py:63-66
      [] o.res = "decode_error" -> Raised         \* main.py:69, not caught
      [] o.res = "bad_status" -> RetNone          \* main.py:80-90
      [] o.res = "json_error" -> RetNone          \* main.py:93-98
      [] o.res = "key_error" -> RetNone           \* main.py:101-107
      [] o.res = "type_error" -> Raised           \* main.py:102, TypeError is not caught
      [] o.res = "id_null" -> RetNone             \* main.py:102, 112: "id": null
      [] OTHER -> Ret(o.id)                       \* main.py:112

\* check_addepar_job_status
StatusOutcomes ==
    [res : FailedRequests \cup {"pct_null"}, pct : {0}] \cup [res : {"ok"}, pct : Pcts]

check_addepar_job_status(o) ==
    CASE o.res = "request_exception" -> RetNone   \* main.py:143-147
      [] o.res = "decode_error" -> Raised         \* main.py:150, not caught
      [] o.res = "bad_status" -> RetNone          \* main.py:154-164
      [] o.res = "json_error" -> RetNone          \* main.py:167-172
      [] o.res = "key_error" -> RetNone           \* main.py:175-184
      [] o.res = "type_error" -> Raised           \* main.py:176, TypeError is not caught
      [] o.res = "pct_null" -> RetNone            \* main.py:176, 187: "percent_complete": null
      [] OTHER -> Ret(o.pct)                      \* main.py:187

\* download_addepar_job returning True whether or not the file was written
download_addepar_job_ignores_write(o) ==
    CASE o = "request_exception" -> Ret(FALSE)
      [] o = "decode_error" -> Raised
      [] o = "bad_status" -> Ret(FALSE)
      [] OTHER -> Ret(TRUE)

\* download_addepar_job (it reads no field of the body)
DownloadOutcomes == {"request_exception", "decode_error", "bad_status", "write_failed", "ok"}

download_addepar_job(o) ==
    CASE o = "request_exception" -> Ret(FALSE)       \* main.py:213-217
      [] o = "decode_error" -> Raised                \* main.py:220, not caught
      [] o = "bad_status" -> Ret(FALSE)              \* main.py:223-233
      [] OTHER -> Ret(api_response_to_file(o = "ok"))  \* main.py:236-243

\* exec_import_proc: -1 on pymssql.Error, otherwise the first column of the
\* first row the procedure returned
ProcOutcomes == [res : {"sql_error"}, rows : {0}] \cup [res : {"row"}, rows : RowCounts]

exec_import_proc(o) == IF o.res = "sql_error" THEN -1 ELSE o.rows

\* update_job_status_db: True iff the procedure returned 1
UpdateOutcomes == {"one", "zero", "sql_error"}

update_job_status_db(o) == o = "one"

----------------------------------------------------------------------------
(***************************************************************************)
(* The cases of the match statement of process_all_jobs.  Each gives the   *)
(* calls the case makes, in order, whether an exception leaves the case,   *)
(* and the update_job_status_db call it goes on to make (NoUpdate: none)   *)
(* with the value rerun_job has after it.                                  *)
(***************************************************************************)
Case(calls, raised, upd) == [calls |-> calls, raised |-> raised, upd |-> upd]

\* Dispatch with an Error record posted again
Dispatch_retries_errors(job_status) ==
    IF job_status \in {"Queued", "Posted", "Downloaded", "Imported"}
    THEN job_status
    ELSE IF job_status = "Error" THEN "Queued" ELSE "_"

\* Dispatch with the post-import case also taken for a Completed record
Dispatch_completed_again(job_status) ==
    IF job_status \in {"Queued", "Posted", "Downloaded", "Imported"}
    THEN job_status
    ELSE IF job_status = "Completed" THEN "Imported" ELSE "_"

\* the arm of the match statement a status name selects
Dispatch(job_status) ==
    IF job_status \in {"Queued", "Posted", "Downloaded", "Imported"}
    THEN job_status ELSE "_"

\* main.py:71-76: 1 when post_addepar_job got as far as api_response_to_file
\* and the response was written to logs/, 0 otherwise
ResponseSaved(o) ==
    IF o.res \notin {"request_exception", "decode_error"} /\ api_response_to_file(o.saved)
    THEN 1 ELSE 0

\* queued_case asking for a rerun once the job is posted
queued_case_reruns(id, job, o) ==
    LET addepar_job_id == post_addepar_job(o)
        calls == <<CallEvent(id, "post_addepar_job", job.JobDetails, o.res, ResponseSaved(o), o.id)>>
    IN  IF addepar_job_id.raised THEN Case(calls, TRUE, NoUpdate)
        ELSE IF addepar_job_id.none
             THEN Case(calls, FALSE, Update("Error", MsgPostFailed, FALSE))
             ELSE Case(calls, FALSE, Update("Posted", addepar_job_id.val, TRUE))

\* main.py:413-424
queued_case(id, job, o) ==
    LET addepar_job_id == post_addepar_job(o)
        calls == <<CallEvent(id, "post_addepar_job", job.JobDetails, o.res, ResponseSaved(o), o.id)>>
    IN  IF addepar_job_id.raised THEN Case(calls, TRUE, NoUpdate)
        ELSE IF addepar_job_id.none
             THEN Case(calls, FALSE, Update("Error", MsgPostFailed, FALSE))
             ELSE Case(calls, FALSE, Update("Posted", addepar_job_id.val, FALSE))

\* PctBranch with <= 1 in the first test
PctBranch_le(job_pct_complete) ==
    IF job_pct_complete >= 0 /\ job_pct_complete <= PctOne THEN "not_complete"
    ELSE IF job_pct_complete = PctOne THEN "complete"
    ELSE "value_error"

\* the if / elif chain of main.py:435-456 on a percent_complete that is not None
PctBranch(job_pct_complete) ==
    IF job_pct_complete >= 0 /\ job_pct_complete < PctOne THEN "not_complete"
    ELSE IF job_pct_complete = PctOne THEN "complete"
    ELSE "value_error"

\* posted_not_complete asking for an immediate rerun to poll again
posted_not_complete_polls_again == [to |-> "", details |-> "", rerun_job |-> TRUE]

\* the branch that found the job not yet complete (main.py:435-437)
posted_not_complete == NoUpdate

\* posted_complete keeping the handle as the detail of Downloaded
posted_complete_keeps_handle(id, job, calls, d) ==
    LET path == data_save_path(job.JobName, job.AsOfDate)
        downloaded == download_addepar_job(d)
        calls2 == Append(calls, CallEvent(id, "download_addepar_job", path, d, 0, ""))
    IN  IF downloaded.raised THEN Case(calls2, TRUE, NoUpdate)
        ELSE IF downloaded.val
             THEN Case(calls2, FALSE, Update("Downloaded", job.JobDetails, TRUE))
             ELSE Case(calls2, FALSE, Update("Error", MsgDownloadFailed, FALSE))

\* posted_complete fetching a second time when the first fetch failed
posted_complete_retries(id, job, calls, d) ==
    LET path == data_save_path(job.JobName, job.AsOfDate)
        downloaded == download_addepar_job(d)
        calls2 == Append(calls, CallEvent(id, "download_addepar_job", path, d, 0, ""))
        retried == Append(calls2, CallEvent(id, "download_addepar_job", path, d, 0, ""))
    IN  IF downloaded.raised THEN Case(calls2, TRUE, NoUpdate)
        ELSE IF downloaded.val
             THEN Case(calls2, FALSE, Update("Downloaded", path, TRUE))
             ELSE Case(retried, FALSE, Update("Error", MsgDownloadFailed, FALSE))

\* the branch that found the job complete (main.py:439-454)
posted_complete(id, job, calls, d) ==
    LET path == data_save_path(job.JobName, job.AsOfDate)
        downloaded == download_addepar_job(d)
        calls2 == Append(calls, CallEvent(id, "download_addepar_job", path, d, 0, ""))
    IN  IF downloaded.raised THEN Case(calls2, TRUE, NoUpdate)
        ELSE IF downloaded.val
             THEN Case(calls2, FALSE, Update("Downloaded", path, TRUE))
             ELSE Case(calls2, FALSE, Update("Error", MsgDownloadFailed, FALSE))

\* posted_value_error marking the record Error
posted_value_error_to_error == Update("Error", MsgStatusFailed, FALSE)

\* the branch for a percent_complete below 0 or above 1 (main.py:456-459)
posted_value_error == NoUpdate

\* main.py:426-459
posted_case(id, job, o, d) ==
    LET job_pct_complete == check_addepar_job_status(o)
        calls == <<CallEvent(id, "check_addepar_job_status", job.JobDetails, o.res, o.pct, "")>>
    IN  IF job_pct_complete.raised THEN Case(calls, TRUE, NoUpdate)
        ELSE IF job_pct_complete.none
             THEN Case(calls, FALSE, Update("Error", MsgStatusFailed, FALSE))
             ELSE CASE PctBranch(job_pct_complete.val) = "not_complete" ->
                         Case(calls, FALSE, posted_not_complete)
                    [] PctBranch(job_pct_complete.val) = "complete" ->
                         posted_complete(id, job, calls, d)
                    [] OTHER -> Case(calls, FALSE, posted_value_error)

\* downloaded_case only logging a failed import
downloaded_case_silent(id, job, o) ==
    LET rows_inserted == exec_import_proc(o)
        calls == <<CallEvent(id, "exec_import_proc", job.JobDetails, o.res, rows_inserted, "")>>
    IN  IF rows_inserted >= 0
        THEN Case(calls, FALSE, Update("Imported", ToString(rows_inserted), TRUE))
        ELSE Case(calls, FALSE, NoUpdate)

\* downloaded_case writing Completed in place of Imported
downloaded_case_skips(id, job, o) ==
    LET rows_inserted == exec_import_proc(o)
        calls == <<CallEvent(id, "exec_import_proc", job.JobDetails, o.res, rows_inserted, "")>>
    IN  IF rows_inserted = -1
        THEN Case(calls, FALSE, Update("Error", MsgImportFailed, FALSE))
        ELSE IF rows_inserted >= 0
             THEN Case(calls, FALSE, Update("Completed", ToString(rows_inserted), TRUE))
             ELSE Case(calls, FALSE, NoUpdate)

\* main.py:461-478
downloaded_case(id, job, o) ==
    LET rows_inserted == exec_import_proc(o)
        calls == <<CallEvent(id, "exec_import_proc", job.JobDetails, o.res, rows_inserted, "")>>
    IN  IF rows_inserted = -1
        THEN Case(calls, FALSE, Update("Error", MsgImportFailed, FALSE))
        ELSE IF rows_inserted >= 0
             THEN Case(calls, FALSE, Update("Imported", ToString(rows_inserted), TRUE))
             ELSE Case(calls, FALSE, NoUpdate)

\* imported_case asking for a rerun after the merge
imported_case_reruns(id, job, o) ==
    LET rows_inserted == exec_import_proc(o)
        calls == <<CallEvent(id, "exec_import_proc", job.JobDetails, o.res, rows_inserted, "")>>
    IN  IF rows_inserted = -1
        THEN Case(calls, FALSE, Update("Error", MsgMergeFailed, FALSE))
        ELSE IF rows_inserted >= 0
             THEN Case(calls, FALSE, Update("Completed", ToString(rows_inserted), TRUE))
             ELSE Case(calls, FALSE, NoUpdate)

\* imported_case writing the job name as the detail of Completed
imported_case_detail(id, job, o) ==
    LET rows_inserted == exec_import_proc(o)
        calls == <<CallEvent(id, "exec_import_proc", job.JobDetails, o.res, rows_inserted, "")>>
    IN  IF rows_inserted = -1
        THEN Case(calls, FALSE, Update("Error", MsgMergeFailed, FALSE))
        ELSE IF rows_inserted >= 0
             THEN Case(calls, FALSE, Update("Completed", job.JobName, FALSE))
             ELSE Case(calls, FALSE, NoUpdate)

\* main.py:480-493
imported_case(id, job, o) ==
    LET rows_inserted == exec_import_proc(o)
        calls == <<CallEvent(id, "exec_import_proc", job.JobDetails, o.res, rows_inserted, "")>>
    IN  IF rows_inserted = -1
        THEN Case(calls, FALSE, Update("Error", MsgMergeFailed, FALSE))
        ELSE IF rows_inserted >= 0
             THEN Case(calls, FALSE, Update("Completed", ToString(rows_inserted), FALSE))
             ELSE Case(calls, FALSE, NoUpdate)

\* case _: only a log line (main.py:495-499)
unmatched_case == Case(<<>>, FALSE, NoUpdate)

\* RerunOr keeping only the flag of the last record
RerunOr_last(r, rerun_job) == rerun_job

\* _rerun = _rerun or rerun_job (main.py:504)
RerunOr(r, rerun_job) == r \/ rerun_job

----------------------------------------------------------------------------
(***************************************************************************)
(* The state machine.                                                      *)
(***************************************************************************)
\* __main__ calls no function of database_utils.py but query_to_list
\* (main.py:550)
NoCall == [fn |-> "none", args |-> <<>>, done |-> FALSE, res |-> <<>>]

\* the start of __main__ with the given rows in the JobQueue table
StartWith(table) ==
    /\ db = table
    /\ durable = db
    /\ lost = {}
    /\ db_conn = "none"
    /\ pc = "connect"
    /\ open_jobs = <<>>
    /\ idx = 1
    /\ pend = NoUpdate
    /\ rerun_all = FALSE
    /\ rerun = TRUE
    /\ log = <<>>
    /\ dispatched = [id \in DOMAIN db |-> 0]
    /\ rerun_jobs = <<>>

Init ==
    /\ \E st \in [JobIds -> AllStatuses] : StartWith([id \in JobIds |-> InitRow(id, st[id])])
    /\ util = NoCall

\* the record of open_jobs the for loop is at
CurJob == open_jobs[idx]
CurId == open_jobs[idx].ID

\* main.py:544-549: a pass begins
Connect ==
    /\ pc = "connect"
    /\ db_conn' = "open"
    /\ pc' = "query"
    /\ log' = <<>>
    /\ dispatched' = [id \in DOMAIN db |-> 0]
    /\ rerun_jobs' = <<>>
    /\ UNCHANGED <<db, durable, lost, util, open_jobs, idx, pend, rerun_all, rerun>>

\* the orders in which usp_GetOpenJobs returns the rows: by ID, ascending or
\* descending (process_all_jobs takes the rows as they come)
NumRows == Cardinality(DOMAIN db)
Orders == { [i \in 1 .. NumRows |-> i], [i \in 1 .. NumRows |-> NumRows + 1 - i] }

SnapshotRow(id) ==
    [ID |-> id, JobName |-> db[id].JobName, AsOfDate |-> db[id].AsOfDate,
     StatusName |-> db[id].StatusName, JobDetails |-> db[id].JobDetails]

\* main.py:550-555: query_to_list returns the rows; process_all_jobs starts
QueryOpenJobs ==
    /\ pc = "query"
    /\ \E order \in Orders : open_jobs' = [i \in 1 .. NumRows |-> SnapshotRow(order[i])]
    /\ idx' = 1
    /\ rerun_all' = FALSE
    /\ pc' = "process"
    /\ UNCHANGED <<db, durable, lost, util, db_conn, pend, rerun, log, dispatched, rerun_jobs>>

\* main.py:550-552: the query fails.  query_to_list catches pyodbc.Error
\* only (database_utils.py:198): the error of the pymssql connection leaves
\* it, and had it returned None, len(open_jobs) would raise.  Either way an
\* exception ends __main__ before process_all_jobs, commit and close.
QueryFails ==
    /\ pc = "query"
    /\ pc' = "load_failed"
    /\ UNCHANGED <<db, durable, lost, util, db_conn, open_jobs, idx, pend, rerun_all, rerun, log,
                   dispatched, rerun_jobs>>

\* EndIteration staying at a record that asked for a rerun
EndIteration_stays(rerun_job) ==
    /\ rerun_all' = RerunOr(rerun_all, rerun_job)
    /\ rerun_jobs' = Append(rerun_jobs, rerun_job)
    /\ idx' = IF rerun_job THEN idx ELSE idx + 1
    /\ pend' = NoUpdate
    /\ pc' = "process"

\* the end of one iteration of the for loop (main.py:501-504)
EndIteration(rerun_job) ==
    /\ rerun_all' = RerunOr(rerun_all, rerun_job)
    /\ rerun_jobs' = Append(rerun_jobs, rerun_job)
    /\ idx' = idx + 1
    /\ pend' = NoUpdate
    /\ pc' = "process"

\* AfterCalls going on to the next record with the update still to be made
AfterCalls_defers(c) ==
    /\ log' = c.calls
    /\ dispatched' = [dispatched EXCEPT ![CurId] = @ + 1]
    /\ UNCHANGED <<db, durable, lost, util, db_conn, open_jobs, rerun>>
    /\ IF c.raised
       THEN /\ pc' = "raised"
            /\ UNCHANGED <<idx, pend, rerun_all, rerun_jobs>>
       ELSE /\ rerun_all' = RerunOr(rerun_all, c.upd.rerun_job)
            /\ rerun_jobs' = Append(rerun_jobs, c.upd.rerun_job)
            /\ idx' = idx + 1
            /\ pend' = IF c.upd.to = "" THEN NoUpdate ELSE c.upd
            /\ pc' = "process"

\* the case has made its calls: raise, go on to the update, or finish the record
AfterCalls(c) ==
    /\ log' = c.calls
    /\ dispatched' = [dispatched EXCEPT ![CurId] = @ + 1]
    /\ UNCHANGED <<db, durable, lost, util, db_conn, open_jobs, rerun>>
    /\ IF c.raised
       THEN /\ pc' = "raised"
            /\ UNCHANGED <<idx, pend, rerun_all, rerun_jobs>>
       ELSE IF c.upd.to = ""
            THEN EndIteration(c.upd.rerun_job)
            ELSE /\ pend' = c.upd
                 /\ pc' = "update"
                 /\ UNCHANGED <<idx, rerun_all, rerun_jobs>>

AtRecord(arm) ==
    /\ pc = "process"
    /\ idx <= Len(open_jobs)
    /\ Dispatch(CurJob.StatusName) = arm

Queued(outs) ==
    /\ AtRecord("Queued")
    /\ \E o \in outs : AfterCalls(queued_case(CurId, CurJob, o))

Posted(outs, douts) ==
    /\ AtRecord("Posted")
    /\ \E o \in outs, d \in douts : AfterCalls(posted_case(CurId, CurJob, o, d))

Downloaded(outs) ==
    /\ AtRecord("Downloaded")
    /\ \E o \in outs : AfterCalls(downloaded_case(CurId, CurJob, o))

Imported(outs) ==
    /\ AtRecord("Imported")
    /\ \E o \in outs : AfterCalls(imported_case(CurId, CurJob, o))

Unmatched ==
    /\ AtRecord("_")
    /\ AfterCalls(unmatched_case)

\* UpdateStatus writing the row at the position of the loop, not the row of
\* the record's ID
UpdateStatus_by_position(outs) ==
    /\ pc = "update"
    /\ \E o \in outs :
        LET ok == update_job_status_db(o)
        IN  /\ db' = IF ok
                     THEN [db EXCEPT ![idx].StatusName = pend.to,
                                     ![idx].JobDetails = pend.details]
                     ELSE db
            /\ log' = Append(log, UpdateEvent(CurId, db[CurId].StatusName,
                                               pend.to, pend.details, ok))
    /\ EndIteration(pend.rerun_job)
    /\ UNCHANGED <<durable, lost, util, db_conn, open_jobs, rerun, dispatched>>

\* the update_job_status_db call of the case, then the end of the iteration
UpdateStatus(outs) ==
    /\ pc = "update"
    /\ \E o \in outs :
        LET ok == update_job_status_db(o)
        IN  /\ db' = IF ok
                     THEN [db EXCEPT ![CurId].StatusName = pend.to,
                                     ![CurId].JobDetails = pend.details]
                     ELSE db
            /\ log' = Append(log, UpdateEvent(CurId, db[CurId].StatusName,
                                               pend.to, pend.details, ok))
    /\ EndIteration(pend.rerun_job)
    /\ UNCHANGED <<durable, lost, util, db_conn, open_jobs, rerun, dispatched>>

\* return _rerun (main.py:506, 555)
Return ==
    /\ pc = "process"
    /\ idx > Len(open_jobs)
    /\ rerun' = rerun_all
    /\ pc' = "commit"
    /\ UNCHANGED <<db, durable, lost, util, db_conn, open_jobs, idx, pend, rerun_all, log, dispatched,
                   rerun_jobs>>

\* main.py:557-561 and the test of the while loop; the updates of the pass
\* are committed here and nowhere else
CommitClose ==
    /\ pc = "commit"
    /\ db_conn' = "closed"
    /\ durable' = db
    /\ pc' = IF rerun THEN "connect" ELSE "done"
    /\ UNCHANGED <<db, lost, util, open_jobs, idx, pend, rerun_all, rerun, log, dispatched,
                   rerun_jobs>>

Next ==
    \/ Connect
    \/ QueryOpenJobs
    \/ QueryFails
    \/ Queued(PostOutcomes)
    \/ Posted(StatusOutcomes, DownloadOutcomes)
    \/ Downloaded(ProcOutcomes)
    \/ Imported(ProcOutcomes)
    \/ Unmatched
    \/ UpdateStatus(UpdateOutcomes)
    \/ Return
    \/ CommitClose

Spec == Init /\ [][Next]_vars

----------------------------------------------------------------------------
(***************************************************************************)
(* The program with working collaborators: no request or response that     *)
(* makes a collaborator function raise, the open-job query succeeds and    *)
(* every status update is accepted.  __main__ is one sequential process,   *)
(* so it always takes its next step.                                       *)
(***************************************************************************)
WorkingPost == { o \in PostOutcomes : ~post_addepar_job(o).raised }
WorkingStatus == { o \in StatusOutcomes : ~check_addepar_job_status(o).raised }
WorkingDownload == { o \in DownloadOutcomes : ~download_addepar_job(o).raised }
WorkingUpdate == { o \in UpdateOutcomes : update_job_status_db(o) }

WorkingNext ==
    \/ Connect
    \/ QueryOpenJobs
    \/ Queued(WorkingPost)
    \/ Posted(WorkingStatus, WorkingDownload)
    \/ Downloaded(ProcOutcomes)
    \/ Imported(ProcOutcomes)
    \/ Unmatched
    \/ UpdateStatus(WorkingUpdate)
    \/ Return
    \/ CommitClose

WorkingSpec == Init /\ [][WorkingNext]_vars /\ WF_vars(WorkingNext)

----------------------------------------------------------------------------
(***************************************************************************)
(* The program interrupted and started again.  The process can be stopped  *)
(* at any point between pymssql.connect (main.py:544) and the close of the *)
(* connection (main.py:558), or end there with an exception; the server    *)
(* then rolls back what the connection has not committed, and the next run *)
(* begins at the top of __main__.                                          *)
(***************************************************************************)

\* the action whose success an update to the status records
ActionOf(to_status) ==
    CASE to_status = "Posted" -> "post_addepar_job"
      [] to_status = "Downloaded" -> "download_addepar_job"
      [] to_status \in {"Imported", "Completed"} -> "exec_import_proc"
      [] OTHER -> "none"

\* the completed actions of this pass that are not committed: those whose
\* update is in the open transaction and the one whose update is still to be made
Uncommitted ==
    { <<id, ActionOf(db[id].StatusName)>> :
        id \in { i \in DOMAIN db : db[i] # durable[i] /\ db[i].StatusName # "Error" } }
    \cup (IF pc = "update" /\ pend.to # "Error"
          THEN { <<CurId, ActionOf(pend.to)>> } ELSE {})

Interrupt ==
    /\ pc \in {"query", "process", "update", "commit", "raised", "load_failed"}
    /\ lost' = lost \cup Uncommitted
    /\ db' = durable
    /\ db_conn' = "closed"
    /\ pc' = "connect"
    /\ open_jobs' = <<>>
    /\ idx' = 1
    /\ pend' = NoUpdate
    /\ rerun_all' = FALSE
    /\ rerun' = TRUE
    /\ log' = <<>>
    /\ dispatched' = [id \in DOMAIN db |-> 0]
    /\ rerun_jobs' = <<>>
    /\ UNCHANGED <<durable, util>>

InterruptNext ==
    \/ Connect
    \/ QueryOpenJobs
    \/ QueryFails
    \/ Queued(PostOutcomes)
    \/ Posted(StatusOutcomes, DownloadOutcomes)
    \/ Downloaded(ProcOutcomes)
    \/ Imported(ProcOutcomes)
    \/ Unmatched
    \/ UpdateStatus(UpdateOutcomes)
    \/ Return
    \/ CommitClose
    \/ Interrupt

InterruptSpec == Init /\ [][InterruptNext]_vars

\* The program with every behaviour of the collaborators, and a run that
\* does not stop while a step is possible.
FairSpec == Init /\ [][Next]_vars /\ WF_vars(Next)

----------------------------------------------------------------------------
(***************************************************************************)
(* The program started on the batch of end-to-end scenario 5: one Queued,  *)
(* one Posted and one Imported record.                                     *)
(***************************************************************************)
Scenario5Statuses == <<"Queued", "Posted", "Imported">>

Scenario5Init ==
    /\ StartWith([id \in DOMAIN Scenario5Statuses |-> InitRow(id, Scenario5Statuses[id])])
    /\ util = NoCall

Scenario5Spec == Scenario5Init /\ [][Next]_vars

----------------------------------------------------------------------------
(***************************************************************************)
(* database_utils.py: connect_to_database and list_bulk_insert, each as a  *)
(* function of its arguments and of what the driver does, and a program    *)
(* that calls one of them.                                                 *)
(***************************************************************************)
MaxRecords == 2
MaxCols == 2

ColumnNames == {"c1", "c2"}
SeqsUpTo(S, n) == UNION { [1 .. k -> S] : k \in 0 .. n }
Range(f) == { f[i] : i \in DOMAIN f }

\* record tuples of 0 .. MaxCols values, data lists of 0 .. MaxRecords tuples
RecordTuples == SeqsUpTo({1}, MaxCols)
DataLists == SeqsUpTo(RecordTuples, MaxRecords)
ColumnLists == SeqsUpTo(ColumnNames, MaxCols)

\* what the driver does in list_bulk_insert: conn.cursor() raises
\* pyodbc.Error, executemany raises it, cursor.commit() raises it, or none does
InsertOutcomes == {"cursor_error", "execute_error", "commit_error", "ok"}

\* '], ['.join(column_list)
RECURSIVE Join(_, _)
Join(sep, l) ==
    IF l = <<>> THEN ""
    ELSE IF Len(l) = 1 THEN l[1]
    ELSE l[1] \o sep \o Join(sep, Tail(l))

\* s * n: the empty string for n <= 0
RECURSIVE Times(_, _)
Times(s, n) == IF n <= 0 THEN "" ELSE s \o Times(s, n - 1)

\* database_utils.py:103-105
InsertSql(table_name, column_list) ==
    "INSERT INTO " \o table_name \o " ([" \o Join("], [", column_list) \o "]) VALUES ("
        \o Times("?, ", Len(column_list) - 1) \o "?);"

\* the result of a call of list_bulk_insert: what it returned or raised, the
\* statement executemany was called with ("": it was not called), and
\* whether the insert was executed and committed
BulkResult(ret, sql, inserted, committed) ==
    [ret |-> ret, sql |-> sql, inserted |-> inserted, committed |-> committed]

\* database_utils.py:55-125
list_bulk_insert(table_name, data, column_list, debug, o) ==
    LET record_len_freq == { Len(data[i]) : i \in DOMAIN data }
        sql == InsertSql(table_name, column_list)
    IN  IF Len(data) = 0 THEN BulkResult("False", "", FALSE, FALSE)
        ELSE IF Cardinality(Range(column_list)) # Len(column_list)
        THEN BulkResult("ValueError", "", FALSE, FALSE)
        ELSE IF Cardinality(record_len_freq) > 1
        THEN BulkResult("ValueError", "", FALSE, FALSE)
        ELSE IF Len(data[1]) # Len(column_list)
        THEN BulkResult("ValueError", "", FALSE, FALSE)
        ELSE IF debug THEN BulkResult("False", "", FALSE, FALSE)
        ELSE CASE o = "cursor_error" ->
                    \* line 117 raises, line 123 reads cursor, which is not bound
                    BulkResult("UnboundLocalError", "", FALSE, FALSE)
               [] o = "execute_error" -> BulkResult("False", sql, FALSE, FALSE)
               [] o = "commit_error" -> BulkResult("False", sql, TRUE, FALSE)
               [] OTHER -> BulkResult("True", sql, TRUE, TRUE)

\* what pyodbc.connect does
ConnectOutcomes == {"connected", "error"}
Usernames == {"", "user"}
Passwords == {"", "secret"}

\* AuthPart with and in place of or
AuthPart_and(username, password) ==
    IF username = "" /\ password = ""
    THEN <<"Trusted_Connection=Yes;">>
    ELSE <<"UID=" \o username \o ";", "PWD=" \o password \o ";">>

\* database_utils.py:37-42: the part of the connection string that
\* authenticates
AuthPart(username, password) ==
    IF username = "" \/ password = ""
    THEN <<"Trusted_Connection=Yes;">>
    ELSE <<"UID=" \o username \o ";", "PWD=" \o password \o ";">>

\* database_utils.py:9-53: the connection string as the sequence of its
\* parts, whether pyodbc.connect was called, and what the function returned
connect_to_database(server, database, driver, username, password, debug, o) ==
    LET conn_str == <<"Driver={" \o driver \o "};", "Server=" \o server \o ";",
                      "Database=" \o database \o ";">> \o AuthPart(username, password)
    IN  IF debug
        THEN [conn_str |-> conn_str, connect_called |-> FALSE, ret |-> "None"]
        ELSE [conn_str |-> conn_str, connect_called |-> TRUE,
              ret |-> IF o = "connected" THEN "Connection" ELSE "pyodbc.Error"]

BulkCalls ==
    [fn : {"list_bulk_insert"},
     args : [data : DataLists, column_list : ColumnLists, debug : BOOLEAN, o : InsertOutcomes],
     done : {FALSE}, res : {<<>>}]

ConnectCalls ==
    [fn : {"connect_to_database"},
     args : [username : Usernames, password : Passwords, debug : BOOLEAN, o : ConnectOutcomes],
     done : {FALSE}, res : {<<>>}]

\* the rest of the state is that of a program that has not begun a pass
DbUtilInit ==
    /\ StartWith(<<>>)
    /\ util \in BulkCalls \cup ConnectCalls

ListBulkInsert ==
    /\ util.fn = "list_bulk_insert"
    /\ ~util.done
    /\ util' = [util EXCEPT
                    !.done = TRUE,
                    !.res = list_bulk_insert("dbo.t", util.args.data, util.args.column_list,
                                             util.args.debug, util.args.o)]
    /\ UNCHANGED main_vars

ConnectToDatabase ==
    /\ util.fn = "connect_to_database"
    /\ ~util.done
    /\ util' = [util EXCEPT
                    !.done = TRUE,
                    !.res = connect_to_database("server", "database", "SQL Server",
                                                util.args.username, util.args.password,
                                                util.args.debug, util.args.o)]
    /\ UNCHANGED main_vars

DbUtilNext ==
    \/ ListBulkInsert
    \/ ConnectToDatabase

DbUtilSpec == DbUtilInit /\ [][DbUtilNext]_vars

----------------------------------------------------------------------------
(***************************************************************************)
(* Properties.                                                             *)
(*                                                                         *)
(* log holds the calls made for the record dispatched last.  Once the      *)
(* iteration of that record has ended, it is open_jobs[idx - 1].           *)
(***************************************************************************)
IsUpdate(e) == e.op = "update_job_status_db"
IsCall(e, op) == e.op = op

\* the iteration of some record of this pass has ended and no other has begun
JustFinished == pc \in {"process", "commit"} /\ idx > 1
LastJob == open_jobs[idx - 1]
LastRerun == rerun_jobs[idx - 1]
LastRow == db[LastJob.ID]
UpdatesOfLog == { i \in DOMAIN log : IsUpdate(log[i]) }

Successor(s) ==
    CASE s = "Queued" -> "Posted"
      [] s = "Posted" -> "Downloaded"
      [] s = "Downloaded" -> "Imported"
      [] s = "Imported" -> "Completed"
      [] OTHER -> "none"

\* C1: every status update process_all_jobs issues for a record whose status
\* is s names Error or the one successor of s in Queued -> Posted ->
\* Downloaded -> Imported -> Completed: never s itself, an earlier status or
\* a status two or more stages ahead.
C1_ForwardOnly ==
    \A i \in DOMAIN log :
        IsUpdate(log[i]) =>
            /\ log[i].from \in HandledStatuses
            /\ log[i].to \in {"Error", Successor(log[i].from)}
            /\ log[i].to # log[i].from

C1_Witness ==
    \E i \in DOMAIN log :
        IsUpdate(log[i]) /\ log[i].from = "Downloaded" /\ log[i].to = "Imported" /\ log[i].ok

\* C2: process_all_jobs returns true iff rerun_job was set for at least one
\* record of the pass, whatever the order of the records.
C2_RerunIsOr ==
    pc = "commit" =>
        /\ Len(rerun_jobs) = Len(open_jobs)
        /\ rerun <=> \E i \in DOMAIN rerun_jobs : rerun_jobs[i]

\* a Downloaded record whose import succeeded, then a Posted record still pending
C2_Witness ==
    /\ pc = "commit"
    /\ rerun
    /\ \E i, j \in DOMAIN open_jobs :
        /\ i < j
        /\ open_jobs[i].StatusName = "Downloaded"
        /\ db[open_jobs[i].ID].StatusName = "Imported"
        /\ rerun_jobs[i]
        /\ open_jobs[j].StatusName = "Posted"
        /\ db[open_jobs[j].ID].StatusName = "Posted"
        /\ ~rerun_jobs[j]

\* C3: a case sets rerun_job iff, once it has run, the persisted status of
\* the record is a newly reached Downloaded or Imported.
C3_RerunIffAdvanced ==
    JustFinished =>
        (LastRerun <=> /\ LastRow.StatusName \in {"Downloaded", "Imported"}
                       /\ LastRow.StatusName # LastJob.StatusName)

\* C4: with working collaborators the loop of __main__ reaches a pass that
\* returns false and leaves the loop.
C4_Terminates == <>(pc = "done")

\* the loop has ended after a record imported in one pass was completed in a
\* later one (the rows start with the detail "0")
C4_Witness ==
    /\ pc = "done"
    /\ \E i \in DOMAIN open_jobs :
        /\ open_jobs[i].StatusName = "Imported"
        /\ open_jobs[i].JobDetails = "1"
        /\ db[open_jobs[i].ID].StatusName = "Completed"

\* C5: for a record whose status is none of Queued, Posted, Downloaded and
\* Imported, process_all_jobs calls no collaborator, issues no update and
\* does not set rerun_job; the row stays as it is.
C5_UnhandledUntouched ==
    /\ pc \in {"update", "raised"} => CurJob.StatusName \in HandledStatuses
    /\ (JustFinished /\ LastJob.StatusName \notin HandledStatuses) =>
            /\ log = <<>>
            /\ ~LastRerun
            /\ LastRow.StatusName = LastJob.StatusName
            /\ LastRow.JobDetails = LastJob.JobDetails

C5_Witness ==
    /\ JustFinished
    /\ LastJob.StatusName \in OtherStatuses
    /\ idx > 2
    /\ open_jobs[idx - 2].StatusName = "Queued"
    /\ db[open_jobs[idx - 2].ID].StatusName = "Posted"

\* C6: once the persisted status of a record is Error or Completed, no step
\* of any later pass issues an update for it or changes its status or detail.
C6_TerminalAbsorbing ==
    /\ [](pc = "update" => db[CurId].StatusName \notin {"Error", "Completed"})
    /\ [][\A id \in DOMAIN db :
            db[id].StatusName \in {"Error", "Completed"} => db'[id] = db[id]]_vars

\* a record that an earlier pass moved to Error is passed over by a later pass
C6_Witness ==
    /\ JustFinished
    /\ LastJob.StatusName = "Error"
    /\ LastJob.JobDetails = MsgImportFailed
    /\ LastRow.StatusName = "Error"

\* C7: whatever the outcomes of the calls, process_all_jobs dispatches every
\* record of the batch exactly once and returns normally.
C7_PassCompletes ==
    /\ pc # "raised"
    /\ pc = "commit" => \A id \in DOMAIN db : dispatched[id] = 1

\* a failed collaborator call of categories (a)-(c)
FailedCall(e) ==
    /\ ~IsUpdate(e)
    /\ e.res \in FailedRequests \cup {"write_failed", "sql_error"}

\* C8: every failure of a collaborator call of a case ends in exactly one
\* update of the record to Error with a diagnostic string and rerun_job
\* false, and no exception leaves process_all_jobs.
C8_FailureBecomesError ==
    (\E i \in DOMAIN log : FailedCall(log[i])) =>
        /\ pc # "raised"
        /\ JustFinished =>
            /\ Cardinality(UpdatesOfLog) = 1
            /\ \A i \in UpdatesOfLog : log[i].to = "Error" /\ log[i].arg \in ErrorMsgs
            /\ ~LastRerun

\* the percent_complete the Posted case got for the record dispatched last
Polled == log # <<>> /\ IsCall(log[1], "check_addepar_job_status") /\ log[1].res = "ok"
Fetched == \E i \in DOMAIN log : IsCall(log[i], "download_addepar_job")

\* the Posted case went no further than the poll: no fetch, no update, and
\* the record is Posted with its detail and without rerun_job
LeftPosted ==
    /\ Len(log) = 1
    /\ pc \notin {"update", "raised"}
    /\ JustFinished =>
        /\ LastJob.ID = log[1].job
        /\ LastRow.StatusName = "Posted"
        /\ LastRow.JobDetails = LastJob.JobDetails
        /\ ~LastRerun

\* C9: the Posted case fetches iff percent_complete is exactly 1; with
\* 0 <= percent_complete < 1 there is no fetch and no update, the record
\* stays Posted with its detail, and rerun_job is false.
C9_FractionBoundary ==
    Polled =>
        /\ Fetched <=> log[1].num = PctOne
        /\ (0 <= log[1].num /\ log[1].num < PctOne) => LeftPosted

C9_Witness ==
    /\ Polled
    /\ log[1].num = PctOne - 1
    /\ JustFinished
    /\ LastJob.ID = log[1].job

\* C10: with percent_complete below 0 or above 1 the Posted case issues no
\* update (to Downloaded or to Error), fetches nothing, leaves the record
\* Posted and leaves rerun_job false.
C10_OutOfRangeUntouched ==
    (Polled /\ (log[1].num < 0 \/ log[1].num > PctOne)) => LeftPosted

C10_Witness ==
    /\ Polled
    /\ log[1].num > PctOne
    /\ JustFinished
    /\ LastJob.ID = log[1].job

\* C11: within a pass the update of a record is issued after the calls of
\* that record and before any call for the next record: an update is pending
\* only between the calls of a record and the end of its iteration, the log
\* of a record holds its calls first and its update last, and a record is
\* dispatched only when no update is pending.
C11_Ordering ==
    /\ [](/\ pend # NoUpdate <=> pc = "update"
          /\ \A i \in DOMAIN log : IsUpdate(log[i]) => i = Len(log) /\ i > 1
          /\ \A i, j \in DOMAIN log : log[i].job = log[j].job
          /\ pc = "update" => /\ log # <<>>
                              /\ log[1].job = CurId
                              /\ UpdatesOfLog = {})
    /\ [][(\E id \in DOMAIN dispatched : dispatched'[id] > dispatched[id]) =>
              /\ pc = "process"
              /\ pend = NoUpdate
              /\ \A i \in DOMAIN log' : ~IsUpdate(log'[i])]_vars

\* the first record was polled, fetched and updated; the second is still to come
C11_Witness ==
    /\ pc = "process"
    /\ idx = 2
    /\ idx <= Len(open_jobs)
    /\ Len(log) = 3
    /\ IsCall(log[1], "check_addepar_job_status")
    /\ IsCall(log[2], "download_addepar_job")
    /\ IsUpdate(log[3])

\* C12: when a run is interrupted and the program is started again, every
\* action that had completed has its status committed, so no call is made
\* again for an action that had already completed.
C12_NoRepeatAfterRestart ==
    \A i \in DOMAIN log : <<log[i].job, log[i].op>> \notin lost

\* a pass over the batch of scenario 5 has returned and every record of it
\* was moved to its next status
Scenario5PassDone ==
    /\ pc = "commit"
    /\ \A i \in DOMAIN open_jobs :
        /\ open_jobs[i].StatusName = Scenario5Statuses[open_jobs[i].ID]
        /\ db[open_jobs[i].ID].StatusName = Successor(open_jobs[i].StatusName)

\* a later pass is at a record that the pass over the batch of scenario 5
\* left Posted or Downloaded
Scenario5Successor ==
    /\ JustFinished
    /\ LastJob.StatusName = Successor(Scenario5Statuses[LastJob.ID])
    /\ LastJob.StatusName \in HandledStatuses

\* C13 as amended: in a pass over the batch of scenario 5 in which all three
\* actions succeed, the Posted record, and only it, sets rerun_job; the pass
\* returns true, __main__ begins another pass, and that pass calls the case
\* of the new status of each record.
C13_Scenario5 ==
    /\ [](Scenario5PassDone =>
            /\ rerun
            /\ \A i \in DOMAIN open_jobs :
                rerun_jobs[i] <=> open_jobs[i].StatusName = "Posted")
    /\ [][Scenario5PassDone => pc' = "connect"]_vars
    /\ [](Scenario5Successor =>
            /\ log # <<>>
            /\ log[1].job = LastJob.ID
            /\ log[1].arg = LastJob.JobDetails
            /\ log[1].op = IF LastJob.StatusName = "Posted"
                           THEN "check_addepar_job_status" ELSE "exec_import_proc")

\* the second pass has imported the record the first pass downloaded
C13_Witness ==
    /\ JustFinished
    /\ \A i \in DOMAIN open_jobs :
        open_jobs[i].StatusName = Successor(Scenario5Statuses[open_jobs[i].ID])
    /\ LastJob.StatusName = "Downloaded"
    /\ LastRow.StatusName = "Imported"

\* C13 as stated: in that pass at least the Posted and the Imported record
\* set rerun_job.
C13_LastTwoRerun ==
    Scenario5PassDone =>
        \A i \in DOMAIN open_jobs :
            open_jobs[i].StatusName \in {"Posted", "Imported"} => rerun_jobs[i]


\* the batch of the pass holds only records of the given status
BatchOnly(status) ==
    /\ open_jobs # <<>>
    /\ \A i \in DOMAIN open_jobs : open_jobs[i].StatusName = status

\* C14: for a Queued record whose submit is accepted with handle h the case
\* issues one update, (Posted, h), and leaves rerun_job false; a pass over a
\* batch of Queued records only never yields true, whatever the outcomes of
\* the submits: _rerun is false throughout the pass and at its return.
C14_SubmitHandler ==
    /\ (JustFinished /\ LastJob.StatusName = "Queued" /\ log[1].res = "accepted") =>
            /\ Len(log) = 2
            /\ IsCall(log[1], "post_addepar_job")
            /\ log[1].arg = LastJob.JobDetails
            /\ IsUpdate(log[2])
            /\ log[2].to = "Posted"
            /\ log[2].arg = log[1].ret
            /\ log[2].arg \in Handles
            /\ ~LastRerun
    /\ (BatchOnly("Queued") /\ pc \in {"process", "update", "raised", "commit"}) =>
            /\ ~rerun_all
            /\ pc = "commit" => ~rerun

\* a pass over Queued records only has returned, the last submit accepted
C14_Witness ==
    /\ pc = "commit"
    /\ BatchOnly("Queued")
    /\ log[1].res = "accepted"
    /\ LastRow.StatusName = "Posted"
    /\ LastRow.JobDetails = log[1].ret

\* C15: for a Posted record whose fraction is 1, once the case has ended: if
\* the fetch succeeded the case issued one update, (Downloaded, the path the
\* fetch wrote to), and set rerun_job; if the fetch failed it issued one
\* update, (Error, diagnostic), and left rerun_job false.
C15_PollAtCompletion ==
    (pc # "update" /\ Len(log) >= 2 /\ IsCall(log[2], "download_addepar_job")) =>
        /\ pc # "raised"
        /\ Len(log) = 3
        /\ IsUpdate(log[3])
        /\ IF log[2].res = "ok"
           THEN /\ log[3].to = "Downloaded"
                /\ log[3].arg = log[2].arg
                /\ LastRerun
           ELSE /\ log[3].to = "Error"
                /\ log[3].arg \in ErrorMsgs
                /\ ~LastRerun

\* C16: for a Downloaded record every outcome of the staging-import
\* procedure yields one update: (Imported, n) with rerun_job set when it
\* returned n >= 0, (Error, diagnostic) with rerun_job false otherwise.
C16_ImportHandler ==
    (JustFinished /\ LastJob.StatusName = "Downloaded") =>
        /\ Len(log) = 2
        /\ IsCall(log[1], "exec_import_proc")
        /\ IsUpdate(log[2])
        /\ IF log[1].num >= 0
           THEN /\ log[2].to = "Imported"
                /\ log[2].arg = ToString(log[1].num)
                /\ LastRerun
           ELSE /\ log[2].to = "Error"
                /\ log[2].arg \in ErrorMsgs
                /\ ~LastRerun

HandlerReturned == JustFinished /\ LastJob.StatusName \in HandledStatuses

\* the branches that return without an update: the Posted case on a fraction
\* other than 1 and the Downloaded and Imported cases on a value below -1
NoWriteBranch ==
    \/ LastJob.StatusName = "Posted" /\ log[1].res = "ok" /\ log[1].num # PctOne
    \/ LastJob.StatusName \in {"Downloaded", "Imported"} /\ log[1].num < -1

\* C18 as amended: a case of a handled status that returns has issued exactly
\* one update, to the successor status or to Error, and the record's status
\* is modified when that update succeeds; the exceptions, which issue no
\* update and leave the status unmodified, are the Posted case with
\* 0 <= fraction < 1, the Posted case with a fraction outside [0,1], and the
\* Downloaded and Imported cases when the procedure returns a value below -1.
C18_TransitionWrite ==
    HandlerReturned =>
        IF NoWriteBranch
        THEN /\ UpdatesOfLog = {}
             /\ LastRow.StatusName = LastJob.StatusName
             /\ LastRow.JobDetails = LastJob.JobDetails
        ELSE /\ UpdatesOfLog = {Len(log)}
             /\ log[Len(log)].from = LastJob.StatusName
             /\ log[Len(log)].to \in {Successor(LastJob.StatusName), "Error"}
             /\ log[Len(log)].ok =>
                    /\ LastRow.StatusName = log[Len(log)].to
                    /\ LastRow.StatusName # LastJob.StatusName

\* a pass has returned that posted a Queued record and left a Posted record
\* with a fraction above 1 as it was
C18_Witness ==
    /\ pc = "commit"
    /\ \E i \in DOMAIN open_jobs :
        /\ open_jobs[i].StatusName = "Queued"
        /\ db[open_jobs[i].ID].StatusName = "Posted"
    /\ HandlerReturned
    /\ LastJob.StatusName = "Posted"
    /\ log[1].res = "ok"
    /\ log[1].num > PctOne
    /\ LastRow.StatusName = "Posted"

\* C18 as stated: a case of a handled status that returns has modified the
\* record's status, unless it is the Posted case with 0 <= fraction < 1.
C18_AlwaysTransition ==
    HandlerReturned =>
        \/ LastRow.StatusName # LastJob.StatusName
        \/ /\ LastJob.StatusName = "Posted"
           /\ log[1].res = "ok"
           /\ log[1].num >= 0
           /\ log[1].num < PctOne


\* a pass of process_all_jobs is under way or has just returned
InPass == pc \in {"process", "update", "raised", "commit"}

\* the function the case of a status calls first
HandlerOf(status) ==
    CASE status = "Queued" -> "post_addepar_job"
      [] status = "Posted" -> "check_addepar_job_status"
      [] status \in {"Downloaded", "Imported"} -> "exec_import_proc"
      [] OTHER -> "none"

\* C19: one call of process_all_jobs issues at most one update per record
\* and never moves a record by two or more stages: each record is dispatched
\* at most once, to the case of the status the pass read for it, and during
\* the pass its status is the one read, the successor of that or Error; the
\* case of the new status runs in a later pass only.
C19_OneStagePerPass ==
    InPass =>
        /\ Cardinality(UpdatesOfLog) <= 1
        /\ \A i \in DOMAIN open_jobs :
            /\ dispatched[open_jobs[i].ID] <= 1
            /\ dispatched[open_jobs[i].ID] = 1 <=> (i < idx \/ (i = idx /\ pc \in {"update", "raised"}))
            /\ db[open_jobs[i].ID].StatusName \in
                    {open_jobs[i].StatusName, Successor(open_jobs[i].StatusName), "Error"}
            /\ (log # <<>> /\ log[1].job = open_jobs[i].ID) =>
                    log[1].op = HandlerOf(open_jobs[i].StatusName)

\* a pass has returned that moved one record to Downloaded and one to
\* Imported, statuses that have a case of their own
C19_Witness ==
    /\ pc = "commit"
    /\ \E i, j \in DOMAIN open_jobs :
        /\ open_jobs[i].StatusName = "Posted"
        /\ db[open_jobs[i].ID].StatusName = "Downloaded"
        /\ open_jobs[j].StatusName = "Downloaded"
        /\ db[open_jobs[j].ID].StatusName = "Imported"
    /\ \A id \in DOMAIN db : dispatched[id] = 1

\* a call of a collaborator that did not give its result
ActionFailed(e) ==
    /\ ~IsUpdate(e)
    /\ \/ e.res \notin {"accepted", "ok", "row"}
       \/ IsCall(e, "exec_import_proc") /\ e.num < 0

\* C20: in a pass each collaborator function (submit, poll, fetch,
\* staging-import and target-merge procedure) is called at most once for a
\* record, and after a call that failed no further collaborator function is
\* called for that record.
C20_NoRetry ==
    InPass =>
        /\ \A id \in DOMAIN db : dispatched[id] <= 1
        /\ \A i, j \in DOMAIN log : log[i].op = log[j].op => i = j
        /\ \A i, j \in DOMAIN log : (ActionFailed(log[i]) /\ i < j) => IsUpdate(log[j])

\* a fetch has failed after a poll, and the case went on to the update only
C20_Witness ==
    /\ JustFinished
    /\ Len(log) = 3
    /\ IsCall(log[2], "download_addepar_job")
    /\ ActionFailed(log[2])
    /\ IsUpdate(log[3])
    /\ log[3].to = "Error"


\* the details a record of the given status may hold (main.py:255-260,
\* 403-406)
DetailsOf(row) ==
    CASE row.StatusName = "Posted" -> Handles
      [] row.StatusName = "Downloaded" -> {data_save_path(row.JobName, row.AsOfDate)}
      [] row.StatusName \in {"Imported", "Completed"} ->
            { ToString(n) : n \in { r \in RowCounts : r >= 0 } }
      [] row.StatusName = "Error" -> ErrorMsgs
      [] OTHER -> {"params"}

\* C21: in every state of a run every record's detail is of the kind its
\* status determines (Posted: a handle; Downloaded: the path the fetch wrote
\* to; Imported, Completed: a row count; Error: one of the fixed diagnostic
\* strings), the update of a record writes a detail of the kind of the
\* status it writes, and the first call of a case is given the detail the
\* pass read for the record, unmodified.
C21_DetailPayload ==
    /\ \A id \in DOMAIN db : db[id].JobDetails \in DetailsOf(db[id])
    /\ \A i \in DOMAIN log :
        IsUpdate(log[i]) =>
            log[i].arg \in DetailsOf([db[log[i].job] EXCEPT !.StatusName = log[i].to])
    /\ (InPass /\ log # <<>>) =>
            \A i \in DOMAIN open_jobs :
                open_jobs[i].ID = log[1].job => log[1].arg = open_jobs[i].JobDetails

\* the merge was given the row count an earlier pass wrote at the import
C21_Witness ==
    /\ JustFinished
    /\ LastJob.StatusName = "Imported"
    /\ LastJob.JobDetails = ToString(1)
    /\ log[1].arg = ToString(1)
    /\ LastRow.StatusName = "Completed"
    /\ LastRow.JobDetails = ToString(0)


\* C22: a step of a run changes the table only by the update of the record
\* the loop is at: it changes the status and the detail of that record and
\* nothing else, no other record changes, and no record is added or deleted.
C22_Frame ==
    [][/\ DOMAIN db' = DOMAIN db
       /\ \A id \in DOMAIN db :
            db'[id] # db[id] =>
                /\ pc = "update"
                /\ id = CurId
                /\ db'[id] = [db[id] EXCEPT !.StatusName = pend.to,
                                            !.JobDetails = pend.details]]_vars

\* the pass read record 2 first and has moved it on; record 1, still to be
\* processed, is as the pass read it
C22_Witness ==
    /\ pc = "process"
    /\ idx = 2
    /\ Len(open_jobs) = 2
    /\ LastJob.ID = 2
    /\ log # <<>>
    /\ IsUpdate(log[Len(log)])
    /\ LastRow.StatusName # LastJob.StatusName
    /\ CurJob.StatusName \in HandledStatuses
    /\ db[CurId].StatusName = CurJob.StatusName
    /\ db[CurId].JobDetails = CurJob.JobDetails


\* C23: whatever the collaborators do, failed updates after a successful
\* download or import included, the loop of __main__ comes to an end: the
\* run reaches the exit of the program or ends with an exception.
C23_TerminatesAnyway == <>(pc \in {"done", "raised", "load_failed"})


\* the program has come to its end: the loop was left, or an exception left
\* process_all_jobs or the lines after the query
Exited == pc \in {"done", "raised", "load_failed"}

\* C24: the connection a pass opened is open for its query and its updates,
\* and it is committed and closed before the next pass begins and before the
\* program ends, on every path out of the pass.
C24_ConnectionLifecycle ==
    /\ pc \in {"query", "process", "update", "commit"} => db_conn = "open"
    /\ pc = "connect" => db_conn \in {"none", "closed"} /\ durable = db
    /\ Exited => db_conn = "closed" /\ durable = db


\* the outcome of a submit with the write of its response to logs/ turned
\* from success to failure or back
OtherSave(o) == [o EXCEPT !.saved = ~o.saved]

\* C25: for a Queued record the update the case issues (Posted with the
\* handle, or Error), whether an exception leaves the case, and rerun_job
\* are the same whether or not the write of the raw response to logs/
\* succeeds: they follow from the response alone.
C25_AuditNonFatal ==
    /\ (pc = "process" /\ idx <= Len(open_jobs) /\ CurJob.StatusName = "Queued") =>
            \A o \in PostOutcomes :
                /\ queued_case(CurId, CurJob, o).upd = queued_case(CurId, CurJob, OtherSave(o)).upd
                /\ queued_case(CurId, CurJob, o).raised
                        = queued_case(CurId, CurJob, OtherSave(o)).raised
    /\ (JustFinished /\ LastJob.StatusName = "Queued") =>
            /\ Len(log) = 2
            /\ IsUpdate(log[2])
            /\ ~LastRerun
            /\ IF log[1].res = "accepted"
               THEN log[2].to = "Posted" /\ log[2].arg = log[1].ret
               ELSE log[2].to = "Error" /\ log[2].arg = MsgPostFailed

\* the job was posted and the record is Posted although the response could
\* not be written to logs/
C25_Witness ==
    /\ JustFinished
    /\ LastJob.StatusName = "Queued"
    /\ log[1].res = "accepted"
    /\ log[1].num = 0
    /\ LastRow.StatusName = "Posted"
    /\ LastRow.JobDetails = log[1].ret


\* C26: an update to Downloaded is issued only after a fetch that returned
\* 200 and whose payload was written to the path that the update stores as
\* the detail; when the write of the payload fails the case issues the
\* update to Error and leaves rerun_job false.
C26_DownloadedImpliesWritten ==
    /\ \A i \in DOMAIN log :
        (IsUpdate(log[i]) /\ log[i].to = "Downloaded") =>
            /\ i = Len(log)
            /\ i > 1
            /\ IsCall(log[i - 1], "download_addepar_job")
            /\ log[i - 1].res = "ok"
            /\ log[i].arg = log[i - 1].arg
    /\ (JustFinished /\ Len(log) >= 2 /\ IsCall(log[2], "download_addepar_job")
            /\ log[2].res = "write_failed") =>
            /\ Len(log) = 3
            /\ IsUpdate(log[3])
            /\ log[3].to = "Error"
            /\ log[3].arg = MsgDownloadFailed
            /\ ~LastRerun
            /\ LastRow.StatusName # "Downloaded"

\* the payload could not be written and the record is Error
C26_Witness ==
    /\ JustFinished
    /\ Len(log) = 3
    /\ IsCall(log[2], "download_addepar_job")
    /\ log[2].res = "write_failed"
    /\ LastRow.StatusName = "Error"
    /\ LastRow.JobDetails = MsgDownloadFailed


\* C27: a fetch never writes to the path that is the detail of another
\* record that is Downloaded and waits for its import: two records that
\* reach Downloaded have different paths.
C27_NoCollision ==
    \A i \in DOMAIN log :
        (IsCall(log[i], "download_addepar_job") /\ log[i].res = "ok") =>
            \A id \in DOMAIN db \ {log[i].job} :
                ~(db[id].StatusName = "Downloaded" /\ db[id].JobDetails = log[i].arg)


\* C28: when the load of the open jobs fails the run ends with no record
\* dispatched and no update issued in that pass, and with the connection of
\* the pass closed.
C28_LoadFailure ==
    pc = "load_failed" =>
        /\ \A id \in DOMAIN db : dispatched[id] = 0
        /\ log = <<>>
        /\ db = durable
        /\ db_conn = "closed"


\* a call of list_bulk_insert has ended
BulkDone == util.fn = "list_bulk_insert" /\ util.done

\* the arguments on which list_bulk_insert must not insert
BulkRejected ==
    LET data == util.args.data
        column_list == util.args.column_list
    IN  \/ data = <<>>
        \/ \E i, j \in DOMAIN column_list : i # j /\ column_list[i] = column_list[j]
        \/ \E i, j \in DOMAIN data : Len(data[i]) # Len(data[j])
        \/ \E i \in DOMAIN data : Len(data[i]) # Len(column_list)
        \/ util.args.debug

\* C29: list_bulk_insert executes no INSERT when the data list is empty, the
\* column names are not unique, the record tuples differ in length or do not
\* match the length of the column list, or debug is true; it returns True
\* only when the insert was executed and committed; and it returns False on
\* a database error.
C29_BulkInsert ==
    BulkDone =>
        /\ BulkRejected => util.res.sql = "" /\ ~util.res.inserted
        /\ util.res.ret = "True" => util.res.inserted /\ util.res.committed
        /\ (~BulkRejected /\ util.args.o # "ok") => util.res.ret = "False"

\* a call of connect_to_database has ended
ConnectDone == util.fn = "connect_to_database" /\ util.done

\* C30: connect_to_database puts the username and the password into the
\* connection string iff both are non-empty, asks for a trusted connection
\* otherwise, and with debug set never calls pyodbc.connect.
C30_Credentials ==
    ConnectDone =>
        LET conn_str == util.res.conn_str
            both == util.args.username # "" /\ util.args.password # ""
            uses_credentials ==
                /\ "UID=" \o util.args.username \o ";" \in Range(conn_str)
                /\ "PWD=" \o util.args.password \o ";" \in Range(conn_str)
            trusted == "Trusted_Connection=Yes;" \in Range(conn_str)
        IN  /\ uses_credentials <=> both
            /\ trusted <=> ~both
            /\ util.args.debug => ~util.res.connect_called /\ util.res.ret = "None"
            /\ (~util.args.debug) => util.res.connect_called

\* a password without a username: the trusted connection was opened
C30_Witness ==
    /\ ConnectDone
    /\ util.args.username = ""
    /\ util.args.password # ""
    /\ ~util.args.debug
    /\ util.res.ret = "Connection"
    /\ util.res.conn_str[Len(util.res.conn_str)] = "Trusted_Connection=Yes;"

=============================================================================
